---- MODULE Spec2Model ----
(***************************************************************************)
(* ClaudeBot: the fix-attempt controller (ClaudeBot.fix_single_test), the  *)
(* session loop (ClaudeBot.run_continuous_fixing) and the git working tree *)
(* they act on (GitManager), modelled from src/src/claudebot.               *)
(*                                                                         *)
(* The external processes are the environment: the assistant rewrites the  *)
(* working tree and exits with a status, pytest reports a result per run,  *)
(* git commit may be rejected.  Each blocking call of the controller is    *)
(* one step of the model.                                                  *)
(***************************************************************************)
EXTENDS Integers, Sequences, FiniteSets, TLC

\* ------------------------------------------------------------------ bounds
MaxAttempts == 2        \* calls of fix_single_test in one behaviour
MaxCommits == 3         \* revisions in the repository, the initial one included
MaxNameLen == 6         \* characters of a test name given to the path mapping
MaxIterations == 2      \* loop iterations of run_continuous_fixing explored

\* ------------------------------------------------------------ value spaces
Tests == {"A", "B", "C"}                     \* test names the runner can report
Files == {"f", "g"}                       \* paths of the working tree
Content == {"absent", "v1", "v2"}         \* what a path holds
Tree == [Files -> Content]
\* the trees the assistant leaves: it rewrites f, and may create or remove g
Edits == {t \in Tree : t["f"] # "absent" /\ t["g"] # "v2"}
NotRun == "NOT_RUN"                       \* name is not a key of test_results
NoTest == "-"                             \* no target / no request

VARIABLES
    \* the repository and its working tree (process-wide, GitManager acts on it)
    repo,                \* sequence of revisions, each [tree, message]
    head,                \* HEAD: index into repo
    index,               \* the staging area
    wt,                  \* the working tree
    \* ClaudeBot object
    test_results,        \* name -> status, NotRun when the name is no key
    previously_passing,  \* set of names
    prompt_template,     \* whether the attribute self.prompt_template exists
    generator,           \* the class of self.prompt_generator
    \* the frame of fix_single_test
    pc, test_name, initial_commit, unchecked, failed_tests, result,
    \* history of the current attempt
    log, start, attempts,
    edited,              \* the working tree as the assistant left it
    recorded,            \* GitManager's caller took initial_commit from
                         \* get_current_commit on a clean tree, and only file
                         \* writes and commit_changes followed
    \* the frame of run_continuous_fixing
    spc, iteration, fixes_made, max_iterations, request, success,
    \* the frame of TestRunner.run_full_test_suite
    rpc,                 \* where the call is
    xml_file,            \* the temporary report: absent, empty, malformed or junit
    junit,               \* the test cases written in the report
    returned,            \* [done, value]: the mapping returned once done
    \* convert_test_name_to_pytest_path, strings being sequences of characters
    junit_name,          \* its argument test_name
    test_path,           \* what it returned
    \* _parse_junit_xml on one <testcase> element
    testcase,            \* the element: classname, name, markers, and where
                         \* the test is defined
    parsed,              \* [named, name, status]: the entry made for it
    \* cli.main
    cli,                 \* [bot_class, argv, kwargs, calls, delay, at]
    \* two processes of the program in one working tree
    instances,           \* per process, the frame of its fix_single_test
    \* run_continuous_fixing driven by ImplementationComparatorGenerator
    comparator           \* [at, modules, _processed_modules, prompts, executed,
                         \*  iteration, fixes_made]

gitvars == <<repo, head, index, wt>>
botvars == <<test_results, previously_passing, prompt_template, generator>>
fixvars == <<pc, test_name, initial_commit, unchecked, failed_tests, result>>
histvars == <<log, start, attempts, edited, recorded>>
loopvars == <<spc, iteration, fixes_made, max_iterations, request, success>>
pathvars == <<junit_name, test_path, testcase, parsed, cli, instances, comparator>>
runvars == <<rpc, xml_file, junit, returned, pathvars>>
vars == <<gitvars, botvars, fixvars, histvars, loopvars, runvars>>

\* ------------------------------------------------------------ GitManager
HeadTree == repo[head].tree

\* get_current_commit: git rev-parse HEAD
MutStaleCommit == IF head > 1 THEN head - 1 ELSE head
get_current_commit == head

\* git status --porcelain prints something: staged, modified or untracked paths
MutHasUncommittedTracked(tree, ix, w) ==
    ix # tree \/ \E f \in Files : ix[f] # "absent" /\ w[f] # ix[f]
has_uncommitted_changes(tree, ix, w) == ix # tree \/ w # ix

\* a commit hash resolves when the repository holds that revision
resolves(commit_hash) == commit_hash \in 1..Len(repo)

\* git reset --hard: paths of the target revision take its content, paths known
\* to the index but not to the target are removed, untracked paths are left
MutResetKeepsWorktree(tree, ix, w) == w
MutResetAndClean(tree, ix, w) == tree
reset_hard_worktree(tree, ix, w) ==
    [f \in Files |-> IF tree[f] # "absent" THEN tree[f]
                     ELSE IF ix[f] # "absent" THEN "absent"
                     ELSE w[f]]

\* git add . stages the whole working tree
MutAddTrackedOnly(ix, w) == [f \in Files |-> IF ix[f] # "absent" THEN w[f] ELSE ix[f]]
git_add_all(ix, w) == w

\* git commit exits non-zero with nothing staged, or when git rejects it
MutCommitNeverFails(tree, staged, rejected) == FALSE
commit_fails(tree, staged, rejected) == staged = tree \/ rejected

\* ------------------------------------------------------------ ClaudeBot
Status == {"PASSING", "FAILING", "SKIPPED"}
Results == [Tests -> Status \cup {NotRun}]
EmptyResults == [n \in Tests |-> NotRun]

MutPassingNamesAll(results) == {n \in Tests : results[n] \in {"PASSING", "SKIPPED"}}
passing_names(results) == {n \in Tests : results[n] = "PASSING"}
MutFailingNamesNotPassing(results) == {n \in Tests : results[n] \in {"FAILING", "SKIPPED"}}
failing_names(results) == {n \in Tests : results[n] = "FAILING"}

\* the assistant's exit status; success = return_code == 0
ReturnCodes == {0, 1}
MutAssistantAlwaysSucceeds(return_code) == TRUE
assistant_succeeded(return_code) == return_code = 0

\* run_single_test: PASSING on exit status 0, FAILING otherwise and on timeout
SingleTestStatus == {"PASSING", "FAILING"}

\* how the pytest process of run_single_test ends
PytestOutcomes == {"exit0", "exit1", "timeout"}
\* TestRunner.run_single_test: the result has the name given; TimeoutExpired is
\* caught and gives FAILING
MutTimeoutPasses(name, outcome) ==
    [name |-> name, status |-> IF outcome = "exit1" THEN "FAILING" ELSE "PASSING"]
run_single_test(name, outcome) ==
    [name |-> name, status |-> IF outcome = "exit0" THEN "PASSING" ELSE "FAILING"]

MutTestFixedAlways(status) == TRUE
test_fixed(status) == status = "PASSING"

MutRegressionNever(status) == FALSE
is_regression(status) == status = "FAILING"

\* the for loop of check_no_regression ends when every test of
\* previously_passing was re-run: it has no break
MutStopAtFirstFailure(left, failed) == left = {} \/ failed # {}
loop_over(left, failed) == left = {}

MutNoRegressionAlways(failed) == TRUE
no_regression(failed) == failed = {}

\* self.previously_passing.add(test_name)
MutReplacePassing(passing, name) == {name}
add_passing(passing, name) == passing \cup {name}

MutCommitMessageGeneric(name) == <<"fix: resolve failing test ", "", "\n\n", "Generated with ClaudeBot">>
commit_message(name) == <<"fix: resolve failing test ", name, "\n\n", "Generated with ClaudeBot">>

\* what the attempt's log records: <<kind, subject, outcome>>
Ev(kind, subject, outcome) == <<kind, subject, outcome>>
EvReset == Ev("reset", "-", "-")
\* a single test was run for the step kind and gave the result ran; a timeout
\* of the run is logged before the result
EvRun(kind, ran, outcome) ==
    (IF outcome = "timeout" THEN <<Ev("timeout", ran.name, kind)>> ELSE <<>>)
        \o <<Ev(kind, ran.name, ran.status)>>
\* the user pressed Ctrl+C: KeyboardInterrupt is raised where the program is
EvInterrupt == Ev("interrupt", "-", "-")

Snapshot ==
    [wt |-> wt, index |-> index, head |-> head, commits |-> Len(repo),
     test_results |-> test_results, previously_passing |-> previously_passing]

InitWorld ==
    /\ repo = <<[tree |-> [f \in Files |-> IF f = "f" THEN "v1" ELSE "absent"],
                 message |-> <<"initial">>]>>
    /\ head = 1
    /\ index = repo[1].tree
    /\ wt = repo[1].tree
    /\ test_results = EmptyResults
    /\ previously_passing = {}
    /\ pc = "idle" /\ test_name = NoTest /\ initial_commit = 0
    /\ unchecked = {} /\ failed_tests = {} /\ result = "none"
    /\ log = <<>> /\ attempts = 0 /\ edited = wt /\ recorded = FALSE
    /\ start = [wt |-> wt, index |-> index, head |-> head, commits |-> 1,
                test_results |-> test_results, previously_passing |-> previously_passing]
    /\ iteration = 0 /\ fixes_made = 0
    /\ request = NoTest /\ success = FALSE
    /\ xml_file = "absent" /\ junit = [n \in Tests |-> "none"]
    /\ returned = [done |-> FALSE, value |-> EmptyResults]

\* no path is being converted
NoCase == [classname |-> <<>>, name |-> <<>>, markers |-> {},
           file |-> <<>>, selector |-> <<>>]
NoEntry == [named |-> FALSE, name |-> <<>>, status |-> NotRun]
NoArgv == [pg |-> "absent", module |-> "-", delay |-> "absent",
           verbose |-> FALSE, debug |-> FALSE]
NoCli == [bot_class |-> "-", argv |-> NoArgv, kwargs |-> <<>>, calls |-> 0,
          delay |-> 0, at |-> "off"]
Instances == {"1", "2"}
NoInstances == [i \in Instances |->
                   [pc |-> "off", test_name |-> NoTest, initial_commit |-> 0,
                    attempts |-> 0, wrote |-> {}]]
NoComparator == [at |-> "off", modules |-> {}, _processed_modules |-> {},
                 prompts |-> <<>>, executed |-> <<>>, iteration |-> 0,
                 fixes_made |-> 0]
NoPath ==
    /\ junit_name = <<>> /\ test_path = <<>>
    /\ testcase = NoCase /\ parsed = NoEntry
    /\ cli = NoCli /\ instances = NoInstances /\ comparator = NoComparator

\* a ClaudeBot whose methods are called one after the other; prompt_template is
\* the attribute read by run_claude_on_test: ClaudeBot.__init__ of claudebot.py
\* does not assign it, the one of __init__.py does
Init ==
    /\ InitWorld /\ NoPath
    /\ prompt_template \in BOOLEAN
    /\ generator = "TestFixerGenerator"
    /\ spc = "off" /\ max_iterations = 0 /\ rpc = "off"

\* discover_and_run_tests: the report replaces test_results, and
\* previously_passing is recomputed from it
discover(report) ==
    /\ test_results' = report
    /\ previously_passing' = passing_names(report)

\* the frame of the last fix_single_test is gone when the next call is made
NoFrame ==
    /\ pc' = "idle" /\ test_name' = NoTest /\ initial_commit' = 0
    /\ unchecked' = {} /\ failed_tests' = {} /\ result' = "none"
    /\ log' = <<>> /\ edited' = wt
    /\ start' = [Snapshot EXCEPT !.test_results = test_results',
                                 !.previously_passing = previously_passing']

discover_and_run_tests ==
    /\ pc = "idle" /\ spc = "off"
    /\ \E report \in Results : discover(report)
    /\ NoFrame
    /\ UNCHANGED <<gitvars, prompt_template, generator, attempts, loopvars>>
    /\ UNCHANGED recorded
    /\ UNCHANGED runvars

\* ------------------------------------------------- GitManager operations
\* reset_to_commit(commit_hash), when the hash resolves
reset_to_commit(commit_hash, ix) ==
    /\ head' = commit_hash
    /\ index' = repo[commit_hash].tree
    /\ wt' = reset_hard_worktree(repo[commit_hash].tree, ix, wt)
    /\ repo' = repo

\* commit_changes(message) that succeeds: git add . then git commit
commit_changes(message) ==
    /\ repo' = Append(repo, [tree |-> git_add_all(index, wt), message |-> message])
    /\ head' = Len(repo) + 1
    /\ index' = git_add_all(index, wt)
    /\ wt' = wt

\* ------------------------------------------------------- fix_single_test
\* the callers of fix_single_test pass a name that get_random_failing_test
\* returned: a key of test_results whose status is FAILING
fix_single_test_begin(name) ==
    /\ pc = "idle" /\ spc = "off"
    /\ attempts < MaxAttempts /\ Len(repo) < MaxCommits
    /\ name \in failing_names(test_results)
    /\ test_name' = name
    /\ initial_commit' = get_current_commit
    /\ pc' = "claude" /\ result' = "none"
    /\ unchecked' = {} /\ failed_tests' = {}
    /\ log' = <<>> /\ start' = Snapshot /\ attempts' = attempts + 1 /\ edited' = wt
    /\ UNCHANGED <<gitvars, botvars, loopvars>>
    /\ UNCHANGED recorded
    /\ UNCHANGED runvars

\* Step 1, run_claude_on_test: formatting the prompt reads self.prompt_template;
\* the assistant then edits the working tree and exits with a status
run_claude_on_test ==
    /\ pc = "claude"
    /\ IF ~prompt_template
       THEN /\ pc' = "idle" /\ result' = "AttributeError"
            /\ UNCHANGED <<gitvars, log, edited>>
       ELSE \E tree \in Edits, return_code \in ReturnCodes :
            /\ wt' = tree /\ edited' = tree
            /\ UNCHANGED <<repo, head, index>>
            /\ log' = Append(log, Ev("assistant", "-",
                                     IF return_code = 0 THEN "ok" ELSE "failed"))
            /\ IF assistant_succeeded(return_code)
               THEN pc' = "changes" /\ result' = result
               ELSE pc' = "idle" /\ result' = "False"
    /\ UNCHANGED <<botvars, test_name, initial_commit, unchecked, failed_tests,
                   start, attempts, loopvars>>
    /\ UNCHANGED recorded
    /\ UNCHANGED runvars

\* Step 2: has_uncommitted_changes
check_changes ==
    /\ pc = "changes"
    /\ LET changed == has_uncommitted_changes(HeadTree, index, wt) IN
        /\ log' = Append(log, Ev("changes", "-", IF changed THEN "yes" ELSE "no"))
        /\ IF changed
           THEN pc' = "target" /\ result' = result
           ELSE pc' = "idle" /\ result' = "False"
    /\ UNCHANGED <<gitvars, botvars, test_name, initial_commit, unchecked, failed_tests,
                   start, attempts, edited, loopvars>>
    /\ UNCHANGED recorded
    /\ UNCHANGED runvars

\* Step 3: check_test_fixed re-runs the target; roll back when it is not PASSING
check_test_fixed ==
    /\ pc = "target"
    /\ \E outcome \in PytestOutcomes :
        LET ran == run_single_test(test_name, outcome) IN
        IF test_fixed(ran.status)
        THEN /\ pc' = "regression" /\ result' = result
             /\ unchecked' = previously_passing
             /\ log' = log \o EvRun("target", ran, outcome)
             /\ UNCHANGED gitvars
        ELSE /\ reset_to_commit(initial_commit, index)
             /\ pc' = "idle" /\ result' = "False"
             /\ unchecked' = unchecked
             /\ log' = Append(log \o EvRun("target", ran, outcome), EvReset)
    /\ UNCHANGED <<botvars, test_name, initial_commit, failed_tests,
                   start, attempts, edited, loopvars>>
    /\ UNCHANGED recorded
    /\ UNCHANGED runvars

\* Step 4, the loop of check_no_regression: one previously passing test per step
check_no_regression_run ==
    /\ pc = "regression"
    /\ \E name \in unchecked, outcome \in PytestOutcomes :
        LET ran == run_single_test(name, outcome) IN
        /\ unchecked' = unchecked \ {name}
        /\ failed_tests' = IF is_regression(ran.status) THEN failed_tests \cup {name}
                           ELSE failed_tests
        /\ log' = log \o EvRun("rerun", ran, outcome)
    /\ UNCHANGED <<gitvars, botvars, pc, test_name, initial_commit, result,
                   start, attempts, edited, loopvars>>
    /\ UNCHANGED recorded
    /\ UNCHANGED runvars

\* Step 4, after the loop: roll back when a test regressed
check_no_regression_done ==
    /\ pc = "regression" /\ loop_over(unchecked, failed_tests)
    /\ IF no_regression(failed_tests)
       THEN /\ pc' = "commit" /\ result' = result
            /\ log' = log
            /\ UNCHANGED gitvars
       ELSE /\ reset_to_commit(initial_commit, index)
            /\ pc' = "idle" /\ result' = "False"
            /\ log' = Append(log, EvReset)
    /\ UNCHANGED <<botvars, test_name, initial_commit, unchecked, failed_tests,
                   start, attempts, edited, loopvars>>
    /\ UNCHANGED recorded
    /\ UNCHANGED runvars

\* Step 5: commit; on GitError roll back (git add . has staged the tree by then)
commit_fix ==
    /\ pc = "commit"
    /\ \E rejected \in BOOLEAN :
        IF commit_fails(HeadTree, git_add_all(index, wt), rejected)
        THEN /\ reset_to_commit(initial_commit, git_add_all(index, wt))
             /\ pc' = "idle" /\ result' = "False"
             /\ log' = Append(Append(log, Ev("commit", test_name, "failed")), EvReset)
             /\ UNCHANGED <<test_results, previously_passing>>
        ELSE /\ commit_changes(commit_message(test_name))
             /\ test_results' = IF test_results[test_name] # NotRun
                                THEN [test_results EXCEPT ![test_name] = "PASSING"]
                                ELSE test_results
             /\ previously_passing' = add_passing(previously_passing, test_name)
             /\ pc' = "idle" /\ result' = "True"
             /\ log' = Append(log, Ev("commit", test_name, "created"))
    /\ UNCHANGED <<prompt_template, generator, test_name, initial_commit, unchecked, failed_tests,
                   start, attempts, edited, loopvars>>
    /\ UNCHANGED recorded
    /\ UNCHANGED runvars

fix_single_test ==
    \/ \E name \in Tests : fix_single_test_begin(name)
    \/ run_claude_on_test
    \/ check_changes
    \/ check_test_fixed
    \/ check_no_regression_run
    \/ check_no_regression_done
    \/ commit_fix

Next == discover_and_run_tests \/ fix_single_test

Spec == Init /\ [][Next]_vars

\* ------------------------------------------------- run_continuous_fixing
\* (claudebot.py) with the generator that _load_prompt_generator returned
NoCap == [none |-> TRUE, n |-> 0]
Caps == {NoCap} \cup {[none |-> FALSE, n |-> k] : k \in 0..(MaxIterations - 1)}

\* TestFixerGenerator.should_continue: some test is FAILING
MutShouldContinueNever(results) == FALSE
should_continue(results) == failing_names(results) # {}
MutGetPromptsAnyTest(results) ==
    IF failing_names(results) = {} THEN {<<>>}
    ELSE {<<name>> : name \in {n \in Tests : results[n] # NotRun}}
\* TestFixerGenerator.get_prompts: the lists it can yield: nothing without a
\* FAILING test, else one request, for a FAILING test picked at random
get_prompts(results) ==
    IF failing_names(results) = {} THEN {<<>>}
    ELSE {<<name>> : name \in failing_names(results)}

\* _load_prompt_generator: the default TestFixerGenerator, or the wrapper of a
\* get_prompts function loaded from the module given as --prompt-generator
\* or an instance of a PromptGenerator subclass found in that module
Generators == {"TestFixerGenerator", "FunctionBasedGenerator", "CustomGenerator"}
\* the loop never reads the tree or calls git: the assistant's edits it sees
\* are those of the tracked file
LoopEdits == {t \in Edits : t["g"] = "absent"}
\* FunctionBasedGenerator.should_continue: always
function_should_continue(results) == TRUE
\* what the loaded function yields: nothing, or requests of its own
function_get_prompts(results) == {<<>>, <<"task">>, <<"task", "other">>}

\* a subclass written by the user: its answers are its own, and its
\* on_prompt_completed may raise
custom_should_continue(results) == BOOLEAN
custom_get_prompts(results) == {<<>>, <<"task">>}
on_prompt_completed_raises(gen) == IF gen = "CustomGenerator" THEN BOOLEAN ELSE {FALSE}

\* what self.prompt_generator.should_continue(self.test_results) can answer
generator_should_continue(results) ==
    IF generator = "TestFixerGenerator" THEN {should_continue(results)}
    ELSE IF generator = "FunctionBasedGenerator" THEN {function_should_continue(results)}
    ELSE custom_should_continue(results)
\* the lists list(self.prompt_generator.get_prompts(...)) can be
generator_get_prompts(results) ==
    IF generator = "TestFixerGenerator" THEN get_prompts(results)
    ELSE IF generator = "FunctionBasedGenerator" THEN function_get_prompts(results)
    ELSE custom_get_prompts(results)

\* request = prompts[0]
MutLastPrompt(prompts) == prompts[Len(prompts)]
first_prompt(prompts) == prompts[1]

\* "if max_iterations and iteration > max_iterations"
cap_exceeded(cap, i) == ~cap.none /\ cap.n # 0 /\ i > cap.n

InitLoop ==
    /\ InitWorld /\ NoPath
    /\ prompt_template = FALSE
    /\ generator \in Generators
    /\ spc = "main" /\ max_iterations \in Caps /\ rpc = "off"

\* main: with --dry-run the tests are discovered and nothing else is done,
\* else the session runs
MutMainIgnoresDryRun(dry_run) == "start"
main_dispatch(dry_run) == IF dry_run THEN "dry_run" ELSE "start"

EvMain(dry_run) == Ev("main", "-", IF dry_run THEN "dry_run" ELSE "run")

main ==
    /\ spc = "main"
    /\ \E dry_run \in BOOLEAN :
        /\ spc' = main_dispatch(dry_run)
        /\ log' = <<EvMain(dry_run)>>
    /\ UNCHANGED <<gitvars, botvars, fixvars, start, attempts, edited, recorded,
                   iteration, fixes_made, max_iterations, request, success>>
    /\ UNCHANGED runvars

\* bot.discover_and_run_tests(), "Dry run complete", and main returns
main_dry_run ==
    /\ spc = "dry_run"
    /\ \E report \in Results : discover(report)
    /\ spc' = "exit0"
    /\ log' = Append(log, Ev("discover", "-", "-"))
    /\ UNCHANGED <<gitvars, prompt_template, generator, fixvars, start, attempts,
                   edited, recorded, iteration, fixes_made, max_iterations,
                   request, success>>
    /\ UNCHANGED runvars

\* initial discovery; return at once when nothing is FAILING. The discovery is
\* made before the try statement: an interrupt there is caught nowhere
loop_start ==
    /\ spc = "start"
    /\ \/ \E report \in Results :
            /\ discover(report)
            /\ spc' = IF failing_names(report) = {} THEN "returned" ELSE "top"
            /\ log' = <<>>
       \/ /\ spc' = "KeyboardInterrupt" /\ log' = <<EvInterrupt>>
          /\ UNCHANGED <<test_results, previously_passing>>
    /\ iteration' = 0 /\ fixes_made' = 0
    /\ UNCHANGED <<gitvars, prompt_template, generator, fixvars, start, attempts,
                   edited, recorded, max_iterations, request, success>>
    /\ UNCHANGED runvars

\* top of the loop: count the iteration, stop at the cap, ask the generator
loop_top ==
    /\ spc = "top"
    /\ iteration < MaxIterations
    /\ iteration' = iteration + 1
    /\ \E continue \in generator_should_continue(test_results) :
        spc' = IF cap_exceeded(max_iterations, iteration + 1) THEN "summary"
               ELSE IF ~continue THEN "rediscover"
               ELSE "generate"
    /\ UNCHANGED <<gitvars, botvars, fixvars, histvars,
                   fixes_made, max_iterations, request, success>>
    /\ UNCHANGED runvars

\* the generator reported no work: discover again, then sleep or go on; an
\* interrupt of the discovery or of the sleep is caught by the loop's handler
loop_rediscover ==
    /\ spc = "rediscover"
    /\ \/ \E report \in Results :
            /\ discover(report)
            /\ \E continue \in generator_should_continue(report) :
                spc' = IF ~continue THEN "top" ELSE "generate"
            /\ log' = <<Ev("rediscover", "-", "-")>>
       \/ \E report \in {test_results} \cup Results :
            /\ discover(report)
            /\ spc' = "summary" /\ log' = <<EvInterrupt>>
    /\ UNCHANGED <<gitvars, prompt_template, generator, fixvars, start, attempts, edited,
                   recorded, iteration, fixes_made, max_iterations, request, success>>
    /\ UNCHANGED runvars

\* prompts = list(get_prompts(...)); without prompts sleep and start over,
\* else take prompts[0]
loop_generate ==
    /\ spc = "generate"
    /\ \E prompts \in generator_get_prompts(test_results) :
        IF prompts = <<>>
        THEN /\ spc' = "top"
             /\ UNCHANGED <<request, log, start, edited>>
        ELSE /\ request' = first_prompt(prompts)
             /\ spc' = "execute"
             /\ log' = <<Ev("prompts", prompts[1],
                            IF Len(prompts) > 1 THEN "more" ELSE "single")>>
             /\ start' = Snapshot /\ edited' = wt
    /\ UNCHANGED <<gitvars, botvars, fixvars, attempts,
                   iteration, fixes_made, max_iterations, success>>
    /\ UNCHANGED recorded
    /\ UNCHANGED runvars

\* what _execute_prompt_request returns from its KeyboardInterrupt handler,
\* after it terminated the assistant
interrupted_success == FALSE

\* _execute_prompt_request: the assistant runs on the prompt; success is its
\* exit status being 0; an interrupt is caught here and the call returns
execute_prompt_request ==
    /\ spc = "execute"
    /\ \E tree \in LoopEdits :
        /\ wt' = tree /\ edited' = tree
        /\ \/ \E return_code \in ReturnCodes :
                /\ success' = assistant_succeeded(return_code)
                /\ log' = Append(log, Ev("assistant", "-",
                                         IF return_code = 0 THEN "ok" ELSE "failed"))
           \/ /\ success' = interrupted_success
              /\ log' = Append(log, Ev("assistant", "-", "interrupted"))
    /\ spc' = "completed"
    /\ UNCHANGED <<repo, head, index, botvars, fixvars, start, attempts,
                   iteration, fixes_made, max_iterations, request>>
    /\ UNCHANGED recorded
    /\ UNCHANGED runvars

\* on_prompt_completed, then count the task when the assistant succeeded; an
\* exception of the callback is caught nowhere and leaves run_continuous_fixing
loop_completed ==
    /\ spc = "completed"
    /\ \E raises \in on_prompt_completed_raises(generator) :
        IF raises
        THEN spc' = "Exception" /\ fixes_made' = fixes_made
        ELSE /\ fixes_made' = IF success THEN fixes_made + 1 ELSE fixes_made
             /\ spc' = "refresh"
    /\ UNCHANGED <<gitvars, botvars, fixvars, histvars,
                   iteration, max_iterations, request, success>>
    /\ UNCHANGED runvars

\* discover again after the execution, sleep, next iteration; request and
\* success are the iteration's locals; an interrupt of the discovery or of the
\* sleep is caught by the loop's handler
loop_refresh ==
    /\ spc = "refresh"
    /\ \/ /\ \E report \in Results : discover(report)
          /\ spc' = "top" /\ log' = <<>>
       \/ \E report \in {test_results} \cup Results :
            /\ discover(report)
            /\ spc' = "summary" /\ log' = <<EvInterrupt>>
    /\ request' = NoTest /\ success' = FALSE
    /\ edited' = wt
    /\ start' = [Snapshot EXCEPT !.test_results = test_results',
                                 !.previously_passing = previously_passing']
    /\ UNCHANGED <<gitvars, prompt_template, generator, fixvars, attempts,
                   iteration, fixes_made, max_iterations>>
    /\ UNCHANGED recorded
    /\ UNCHANGED runvars

\* after the loop: print_final_summary
print_final_summary ==
    /\ spc = "summary"
    /\ spc' = "done"
    /\ UNCHANGED <<gitvars, botvars, fixvars, histvars,
                   iteration, fixes_made, max_iterations, request, success>>
    /\ UNCHANGED runvars

run_continuous_fixing ==
    \/ main
    \/ main_dry_run
    \/ loop_start
    \/ loop_top
    \/ loop_rediscover
    \/ loop_generate
    \/ execute_prompt_request
    \/ loop_completed
    \/ loop_refresh
    \/ print_final_summary

SpecLoop == InitLoop /\ [][run_continuous_fixing]_vars

\* --------------------------------------- the fixed-test flow of __init__.py
\* ClaudeBot of __init__.py: run_continuous_fixing picks a FAILING test and
\* calls fix_single_test; its GitManager returns False where the one of
\* git_manager.py raises GitError; its constructor assigns prompt_template
InitLegacy ==
    /\ InitWorld /\ NoPath
    /\ prompt_template = TRUE
    /\ generator = "TestFixerGenerator"
    /\ spc = "legacy_start" /\ max_iterations \in Caps /\ rpc = "off"

\* get_random_failing_test: the names it can return; none is None
MutPicksAnyTest(results) == {n \in Tests : results[n] # NotRun}
get_random_failing_test(results) == failing_names(results)

\* the delay before the next iteration is slept when the cap allows another
\* iteration and some test is FAILING
legacy_sleeps(cap, n, results) ==
    (cap.none \/ n < cap.n) /\ failing_names(results) # {}

\* initial discovery; return at once when nothing is FAILING
legacy_loop_start ==
    /\ spc = "legacy_start"
    /\ \E report \in Results :
        /\ discover(report)
        /\ spc' = IF failing_names(report) = {} THEN "returned" ELSE "legacy_top"
    /\ iteration' = 0 /\ fixes_made' = 0
    /\ UNCHANGED <<gitvars, prompt_template, generator, fixvars, histvars,
                   max_iterations, request, success>>
    /\ UNCHANGED runvars

\* top of the loop: count the iteration, stop at the cap or when
\* get_random_failing_test returns None, else enter fix_single_test, which
\* records the current revision
legacy_loop_top ==
    /\ spc = "legacy_top" /\ pc = "idle"
    /\ iteration < MaxIterations
    /\ iteration' = iteration + 1
    /\ IF cap_exceeded(max_iterations, iteration + 1)
            \/ get_random_failing_test(test_results) = {}
       THEN /\ spc' = "summary"
            /\ UNCHANGED <<fixvars, log, start, edited>>
       ELSE \E name \in get_random_failing_test(test_results) :
            /\ spc' = "legacy_fix"
            /\ test_name' = name
            /\ initial_commit' = get_current_commit
            /\ pc' = "claude" /\ result' = "none"
            /\ unchecked' = {} /\ failed_tests' = {}
            /\ log' = <<>> /\ start' = Snapshot /\ edited' = wt
    /\ UNCHANGED <<gitvars, botvars, attempts, recorded, fixes_made, max_iterations,
                   request, success>>
    /\ UNCHANGED runvars

\* check_test_fixed of __init__.py: a target that is not PASSING ends the
\* process with sys.exit(1)
legacy_check_test_fixed ==
    /\ spc = "legacy_fix" /\ pc = "target"
    /\ \E outcome \in PytestOutcomes :
        LET ran == run_single_test(test_name, outcome) IN
        /\ log' = log \o EvRun("target", ran, outcome)
        /\ IF test_fixed(ran.status)
           THEN /\ pc' = "regression" /\ result' = result
                /\ unchecked' = previously_passing
                /\ spc' = spc
           ELSE /\ pc' = "idle" /\ result' = "SystemExit"
                /\ unchecked' = unchecked
                /\ spc' = "exit1"
    /\ UNCHANGED <<gitvars, botvars, test_name, initial_commit, failed_tests,
                   start, attempts, edited, recorded, iteration, fixes_made,
                   max_iterations, request, success>>
    /\ UNCHANGED runvars

\* GitManager.reset_to_commit of __init__.py: True after git reset --hard, False
\* when git exits non-zero (CalledProcessError is caught and printed)
legacy_reset_to_commit(commit_hash, ix, git_ok) ==
    IF git_ok THEN reset_to_commit(commit_hash, ix)
    ELSE /\ index' = ix
         /\ UNCHANGED <<repo, head, wt>>

EvLegacyReset(git_ok) == IF git_ok THEN EvReset ELSE Ev("reset", "-", "failed")

\* Step 4, after the loop: roll back when a test regressed; what
\* reset_to_commit returns is not looked at
legacy_check_no_regression_done ==
    /\ spc = "legacy_fix" /\ pc = "regression" /\ loop_over(unchecked, failed_tests)
    /\ IF no_regression(failed_tests)
       THEN /\ pc' = "commit" /\ result' = result
            /\ log' = log
            /\ UNCHANGED gitvars
       ELSE \E git_ok \in BOOLEAN :
            /\ legacy_reset_to_commit(initial_commit, index, git_ok)
            /\ pc' = "idle" /\ result' = "False"
            /\ log' = Append(log, EvLegacyReset(git_ok))
    /\ UNCHANGED <<botvars, test_name, initial_commit, unchecked, failed_tests,
                   start, attempts, edited, recorded, loopvars>>
    /\ UNCHANGED runvars

\* Step 5: commit_changes returns a boolean; on False roll back, again without
\* looking at what reset_to_commit returns
legacy_commit_fix ==
    /\ spc = "legacy_fix" /\ pc = "commit"
    /\ \E rejected \in BOOLEAN :
        IF commit_fails(HeadTree, git_add_all(index, wt), rejected)
        THEN \E git_ok \in BOOLEAN :
             /\ legacy_reset_to_commit(initial_commit, git_add_all(index, wt), git_ok)
             /\ pc' = "idle" /\ result' = "False"
             /\ log' = Append(Append(log, Ev("commit", test_name, "failed")),
                              EvLegacyReset(git_ok))
             /\ UNCHANGED <<test_results, previously_passing>>
        ELSE /\ commit_changes(commit_message(test_name))
             /\ test_results' = IF test_results[test_name] # NotRun
                                THEN [test_results EXCEPT ![test_name] = "PASSING"]
                                ELSE test_results
             /\ previously_passing' = add_passing(previously_passing, test_name)
             /\ pc' = "idle" /\ result' = "True"
             /\ log' = Append(log, Ev("commit", test_name, "created"))
    /\ UNCHANGED <<prompt_template, generator, test_name, initial_commit, unchecked,
                   failed_tests, start, attempts, edited, recorded, loopvars>>
    /\ UNCHANGED runvars

\* fix_single_test returned: count the fix, print the status, sleep
legacy_fix_returned ==
    /\ spc = "legacy_fix" /\ pc = "idle"
    /\ fixes_made' = IF result = "True" THEN fixes_made + 1 ELSE fixes_made
    /\ spc' = "legacy_top"
    /\ log' = IF legacy_sleeps(max_iterations, iteration, test_results)
              THEN Append(log, Ev("sleep", "-", "-")) ELSE log
    /\ UNCHANGED <<gitvars, botvars, fixvars, start, attempts, edited, recorded,
                   iteration, max_iterations, request, success>>
    /\ UNCHANGED runvars

legacy_run_continuous_fixing ==
    \/ legacy_loop_start
    \/ legacy_loop_top
    \/ run_claude_on_test
    \/ check_changes
    \/ legacy_check_test_fixed
    \/ check_no_regression_run
    \/ legacy_check_no_regression_done
    \/ legacy_commit_fix
    \/ legacy_fix_returned
    \/ print_final_summary

SpecLegacy == InitLegacy /\ [][legacy_run_continuous_fixing]_vars

\* ------------------------------------- convert_test_name_to_pytest_path
\* (utils.py) a string is the sequence of its characters
PathChars == {"a", ".", ":"}
Names == UNION {[1..k -> PathChars] : k \in 0..MaxNameLen}

\* str.split("::"): the separators are found from left to right, without overlap
\* (parts holds the parts found before position i, the last one being open)
RECURSIVE split_from(_, _, _)
split_from(s, i, parts) ==
    IF i > Len(s) THEN parts
    ELSE IF i < Len(s) /\ s[i] = ":" /\ s[i + 1] = ":"
         THEN split_from(s, i + 2, Append(parts, <<>>))
         ELSE split_from(s, i + 1, [parts EXCEPT ![Len(parts)] = Append(@, s[i])])
split(s) == split_from(s, 1, <<<<>>>>)

\* "::".join(parts)
RECURSIVE join(_)
join(parts) ==
    IF parts = <<>> THEN <<>>
    ELSE IF Len(parts) = 1 THEN parts[1]
    ELSE parts[1] \o <<":", ":">> \o join(Tail(parts))

\* old in s
contains(s, old) == \E i \in 1..Len(s) : s[i] = old

\* str.replace(old, new) for a one-character old
MutReplaceNothing(s, old, new) == s
replace(s, old, new) == [i \in 1..Len(s) |-> IF s[i] = old THEN new ELSE s[i]]

convert_test_name_to_pytest_path(name) ==
    LET parts == split(name) IN
    IF Len(parts) < 2 THEN name
    ELSE LET module_part == parts[1]
             rest == join(Tail(parts))
             module_path == IF contains(module_part, ".")
                            THEN replace(module_part, ".", "/") \o <<".", "p", "y">>
                            ELSE <<"t", "e", "s", "t", "s", "/">> \o module_part
                                     \o <<".", "p", "y">>
         IN module_path \o <<":", ":">> \o rest

InitPath ==
    /\ InitWorld
    /\ prompt_template = FALSE
    /\ generator = "TestFixerGenerator"
    /\ spc = "off" /\ max_iterations = 0 /\ rpc = "convert"
    /\ junit_name \in Names /\ test_path = <<>>
    /\ testcase = NoCase /\ parsed = NoEntry /\ cli = NoCli
    /\ instances = NoInstances /\ comparator = NoComparator

\* test_path = convert_test_name_to_pytest_path(test_name)
call_convert ==
    /\ rpc = "convert"
    /\ test_path' = convert_test_name_to_pytest_path(junit_name)
    /\ rpc' = "converted"
    /\ UNCHANGED <<gitvars, botvars, fixvars, histvars, loopvars,
                   xml_file, junit, returned, junit_name, testcase, parsed, cli,
                   instances, comparator>>

SpecPath == InitPath /\ [][call_convert]_vars

\* --------------------------------------------------------------- cli.main
\* the command line: --prompt-generator or --pg with a module, --delay with a
\* number, -v/--verbose, -d/--debug, each given or not
Argv == [pg : {"absent", "--prompt-generator", "--pg"}, module : {"custom_generator.py"},
         delay : {"absent", "30", "5"}, verbose : BOOLEAN, debug : BOOLEAN]

\* type=int of --delay
to_int(text) == IF text = "30" THEN 30 ELSE IF text = "5" THEN 5 ELSE 0

\* parser.parse_args(): the defaults are None, 60, False, False
parse_args(argv) ==
    [prompt_generator |-> IF argv.pg = "absent" THEN "None" ELSE argv.module,
     delay |-> IF argv.delay = "absent" THEN 60 ELSE to_int(argv.delay),
     verbose |-> argv.verbose, debug |-> argv.debug]

\* the classes main is given: ClaudeBot of claudebot.py by default, the stub of
\* tests/test_cli.py in the tests
BotClasses == {"ClaudeBot", "StubClaudeBot"}
\* the parameters of __init__ without a default, and all of them
required_parameters(bot_class) ==
    IF bot_class = "ClaudeBot" THEN {"test_paths"} ELSE {}
parameters(bot_class) ==
    IF bot_class = "ClaudeBot"
    THEN {"test_paths", "prompt_file", "prompt_generator_module", "verbose", "debug"}
    ELSE {"prompt_generator_module", "verbose", "debug"}
\* the methods of the class that main could call
methods(bot_class) ==
    IF bot_class = "ClaudeBot" THEN {"run_continuous_fixing", "discover_and_run_tests"}
    ELSE {"run_continuous_loop"}

\* bot_class(**kwargs): TypeError when a required parameter is not given or a
\* keyword is not a parameter
constructs(bot_class, kwargs) ==
    /\ required_parameters(bot_class) \subseteq DOMAIN kwargs
    /\ DOMAIN kwargs \subseteq parameters(bot_class)

InitCli ==
    /\ InitWorld
    /\ prompt_template = FALSE
    /\ generator = "TestFixerGenerator"
    /\ spc = "off" /\ max_iterations = 0 /\ rpc = "off"
    /\ junit_name = <<>> /\ test_path = <<>>
    /\ testcase = NoCase /\ parsed = NoEntry /\ instances = NoInstances
    /\ comparator = NoComparator
    /\ \E bot_class \in BotClasses, argv \in Argv :
        cli = [NoCli EXCEPT !.bot_class = bot_class, !.argv = argv, !.at = "main"]

clivars == <<gitvars, botvars, fixvars, histvars, loopvars,
             rpc, xml_file, junit, returned, junit_name, test_path, testcase, parsed,
             instances, comparator>>

\* args = parser.parse_args(); bot = bot_class(prompt_generator_module=...,
\* verbose=..., debug=...)
cli_construct ==
    /\ cli.at = "main"
    /\ LET args == parse_args(cli.argv)
           kwargs == [prompt_generator_module |-> args.prompt_generator,
                      verbose |-> args.verbose, debug |-> args.debug]
       IN  cli' = [cli EXCEPT !.kwargs = kwargs,
                              !.at = IF constructs(cli.bot_class, kwargs)
                                     THEN "constructed" ELSE "TypeError"]
    /\ UNCHANGED clivars

\* bot.run_continuous_loop(delay_between_iterations=args.delay)
cli_run ==
    /\ cli.at = "constructed"
    /\ cli' = IF "run_continuous_loop" \in methods(cli.bot_class)
              THEN [cli EXCEPT !.calls = @ + 1, !.delay = parse_args(cli.argv).delay,
                               !.at = "returned"]
              ELSE [cli EXCEPT !.at = "AttributeError"]
    /\ UNCHANGED clivars

SpecCli == InitCli /\ [][cli_construct \/ cli_run]_vars

\* ------------------- run_continuous_fixing with ImplementationComparatorGenerator
\* the modules are the stems of the file pairs _find_comparable_files returns;
\* the order of the pairs is the one of rglob, any order
Modules == {"m1", "m2", "m3"}
Range(seq) == {seq[k] : k \in 1..Len(seq)}
Orderings(S) == {p \in [1..Cardinality(S) -> S] : Range(p) = S}

\* ImplementationComparatorGenerator.should_continue: a module is unprocessed
comparator_should_continue(modules, processed) == modules \ processed # {}
\* ImplementationComparatorGenerator.get_prompts: the requests it yields, one
\* per module not in _processed_modules, in the order of the pairs
comparator_get_prompts(modules, processed) == Orderings(modules \ processed)
\* _processed_modules once the caller has taken every request of the iterator
drained(processed, prompts) == processed \cup Range(prompts)

InitCompare ==
    /\ InitWorld
    /\ prompt_template = TRUE
    /\ generator = "ImplementationComparatorGenerator"
    /\ spc = "off" /\ max_iterations = 0 /\ rpc = "off"
    /\ junit_name = <<>> /\ test_path = <<>>
    /\ testcase = NoCase /\ parsed = NoEntry /\ cli = NoCli
    /\ instances = NoInstances
    /\ \E modules \in SUBSET Modules :
        comparator = [NoComparator EXCEPT !.at = "start", !.modules = modules]

cmpframe == <<gitvars, botvars, fixvars, histvars, loopvars, rpc, xml_file, junit,
              returned, junit_name, test_path, testcase, parsed, cli, instances>>

\* initial discovery: run_continuous_fixing returns when no test is FAILING
cmp_start ==
    /\ comparator.at = "start"
    /\ \E failing \in BOOLEAN :
        comparator' = [comparator EXCEPT !.at = IF failing THEN "top" ELSE "returned"]
    /\ UNCHANGED cmpframe

\* top of the loop: count the iteration and ask should_continue
cmp_top ==
    /\ comparator.at = "top"
    /\ comparator.iteration < MaxIterations + 1
    /\ comparator' = [comparator EXCEPT
          !.iteration = @ + 1,
          !.at = IF comparator_should_continue(comparator.modules,
                                               comparator._processed_modules)
                 THEN "generate" ELSE "rediscover"]
    /\ UNCHANGED cmpframe

\* should_continue was false: discover, ask again, sleep and continue
cmp_rediscover ==
    /\ comparator.at = "rediscover"
    /\ comparator' = [comparator EXCEPT
          !.at = IF comparator_should_continue(comparator.modules,
                                               comparator._processed_modules)
                 THEN "generate" ELSE "top"]
    /\ UNCHANGED cmpframe

\* prompts = list(get_prompts(...)): the iterator is run to its end, which
\* adds every module it yields to _processed_modules; request = prompts[0]
cmp_get_prompts ==
    /\ comparator.at = "generate"
    /\ \E prompts \in comparator_get_prompts(comparator.modules,
                                             comparator._processed_modules) :
        comparator' = [comparator EXCEPT
            !.prompts = prompts,
            !._processed_modules = drained(@, prompts),
            !.at = IF prompts = <<>> THEN "top" ELSE "execute"]
    /\ UNCHANGED cmpframe

\* _execute_prompt_request(prompts[0]), on_prompt_completed, the count of
\* the tasks whose assistant exited 0, discovery, sleep
cmp_execute ==
    /\ comparator.at = "execute"
    /\ \E return_code \in ReturnCodes :
        comparator' = [comparator EXCEPT
            !.executed = Append(@, first_prompt(comparator.prompts)),
            !.fixes_made = IF assistant_succeeded(return_code) THEN @ + 1 ELSE @,
            !.prompts = <<>>,
            !.at = "top"]
    /\ UNCHANGED cmpframe

compare_implementations ==
    \/ cmp_start
    \/ cmp_top
    \/ cmp_rediscover
    \/ cmp_get_prompts
    \/ cmp_execute

SpecCompare == InitCompare /\ [][compare_implementations]_vars

\* ------------------------------- two processes in the same working tree
\* each process runs fix_single_test on its own target; the repository, the
\* index and the working tree are those of the directory, shared; the steps of
\* a process that run tests touch nothing shared and are one step each
TargetOf(i) == IF i = "1" THEN "A" ELSE "B"

InitTwo ==
    /\ InitWorld
    /\ prompt_template = TRUE
    /\ generator = "TestFixerGenerator"
    /\ spc = "off" /\ max_iterations = 0 /\ rpc = "off"
    /\ junit_name = <<>> /\ test_path = <<>>
    /\ testcase = NoCase /\ parsed = NoEntry /\ cli = NoCli
    /\ instances = [i \in Instances |-> [NoInstances[i] EXCEPT !.pc = "idle"]]
    /\ comparator = NoComparator

twoframe == <<botvars, fixvars, start, attempts, edited, recorded, loopvars,
              rpc, xml_file, junit, returned, junit_name, test_path, testcase,
              parsed, cli, comparator>>

\* fix_single_test(test_name): initial_commit = get_current_commit()
two_begin(i) ==
    /\ instances[i].pc = "idle"
    /\ instances[i].attempts < MaxAttempts /\ Len(repo) < MaxCommits
    /\ instances' = [instances EXCEPT ![i] =
                        [pc |-> "claude", test_name |-> TargetOf(i),
                         initial_commit |-> get_current_commit,
                         attempts |-> @.attempts + 1, wrote |-> {}]]
    /\ log' = <<Ev("begin", i, "-")>>
    /\ UNCHANGED <<gitvars, twoframe>>

\* Step 1: the assistant of the process writes a file and exits
two_run_claude(i) ==
    /\ instances[i].pc = "claude"
    /\ \E f \in Files, c \in Content, return_code \in ReturnCodes :
        /\ wt' = [wt EXCEPT ![f] = c]
        /\ wt' \in Edits /\ wt' # wt
        /\ instances' = [instances EXCEPT
                            ![i].pc = IF assistant_succeeded(return_code)
                                      THEN "changes" ELSE "idle",
                            ![i].wrote = {f}]
        /\ log' = <<Ev("assistant", i, f)>>
    /\ UNCHANGED <<repo, head, index, twoframe>>

\* Step 2: has_uncommitted_changes
two_check_changes(i) ==
    /\ instances[i].pc = "changes"
    /\ LET changed == has_uncommitted_changes(HeadTree, index, wt) IN
        /\ instances' = [instances EXCEPT
                            ![i].pc = IF changed THEN "tests" ELSE "idle"]
        /\ log' = <<Ev("changes", i, IF changed THEN "yes" ELSE "no")>>
    /\ UNCHANGED <<gitvars, twoframe>>

\* Steps 3 and 4: the target and the previously passing tests are re-run; when
\* one of the checks fails the process resets to its initial_commit
two_check_tests(i) ==
    /\ instances[i].pc = "tests"
    /\ \E verified \in BOOLEAN :
        IF verified
        THEN /\ instances' = [instances EXCEPT ![i].pc = "commit"]
             /\ log' = <<Ev("tests", i, "verified")>>
             /\ UNCHANGED gitvars
        ELSE /\ reset_to_commit(instances[i].initial_commit, index)
             /\ instances' = [instances EXCEPT ![i].pc = "idle"]
             /\ log' = <<Ev("reset", i, "-")>>
    /\ UNCHANGED twoframe

\* Step 5: commit_changes; on GitError reset to initial_commit
two_commit_fix(i) ==
    /\ instances[i].pc = "commit"
    /\ \E rejected \in BOOLEAN :
        IF commit_fails(HeadTree, git_add_all(index, wt), rejected)
        THEN /\ reset_to_commit(instances[i].initial_commit, git_add_all(index, wt))
             /\ log' = <<Ev("reset", i, "commit failed")>>
        ELSE /\ commit_changes(commit_message(instances[i].test_name))
             /\ log' = <<Ev("commit", i, "created")>>
    /\ instances' = [instances EXCEPT ![i].pc = "idle"]
    /\ UNCHANGED twoframe

two_instances ==
    \E i \in Instances :
        \/ two_begin(i)
        \/ two_run_claude(i)
        \/ two_check_changes(i)
        \/ two_check_tests(i)
        \/ two_commit_fix(i)

SpecTwo == InitTwo /\ [][two_instances]_vars

\* ------------------------------------------------------------ GitManager
\* the methods of GitManager called in any order on a repository whose files
\* are written between the calls (tests/test_git_manager.py drives it so)
Messages == {<<"Add test file">>, commit_message("A")}
Hashes == 0..(MaxCommits + 1)      \* strings given as a hash; 0 is no hash at all

\* git log -1 --pretty=format:%s: the message up to its first blank line
RECURSIVE subject(_)
subject(message) ==
    IF message = <<>> \/ Head(message) = "\n\n" THEN <<>>
    ELSE <<Head(message)>> \o subject(Tail(message))

gitframe == <<botvars, pc, test_name, unchecked, failed_tests, result,
              start, attempts, edited, loopvars, runvars>>

InitGit ==
    /\ InitWorld /\ NoPath
    /\ prompt_template = FALSE
    /\ generator = "TestFixerGenerator"
    /\ spc = "off" /\ max_iterations = 0 /\ rpc = "off"

\* a file is written, created or deleted in the working tree
write_file ==
    /\ \E f \in Files, c \in Content :
        /\ wt' = [wt EXCEPT ![f] = c]
        /\ wt' \in Edits /\ wt' # wt
    /\ log' = <<Ev("write", "-", "-")>>
    /\ UNCHANGED <<repo, head, index, initial_commit, gitframe>>
    /\ UNCHANGED recorded

\* git add <path>
git_add_path ==
    /\ \E f \in Files :
        /\ index' = [index EXCEPT ![f] = wt[f]]
        /\ index' # index
    /\ log' = <<Ev("add", "-", "-")>>
    /\ UNCHANGED <<repo, head, wt, initial_commit, gitframe>>
    /\ recorded' = FALSE

\* what a method of GitManager raises when its git command exits non-zero:
\* reset_to_commit and commit_changes catch CalledProcessError and raise
\* GitError; get_current_commit and has_uncommitted_changes run git with
\* check=True and catch nothing
raised_on_git_failure(method) ==
    IF method \in {"reset", "commit"} THEN "GitError" ELSE "CalledProcessError"

\* initial_commit = git_manager.get_current_commit(); the git command can fail
\* (not a repository, no git)
call_get_current_commit ==
    /\ \E fault \in BOOLEAN :
        IF fault
        THEN /\ log' = <<Ev("rev-parse", "fault", raised_on_git_failure("rev-parse"))>>
             /\ UNCHANGED <<initial_commit, recorded>>
        ELSE /\ initial_commit' = get_current_commit
             /\ log' = <<Ev("rev-parse", "-", "-")>>
             /\ recorded' = ~has_uncommitted_changes(HeadTree, index, wt)
    /\ UNCHANGED <<gitvars, gitframe>>

\* git_manager.has_uncommitted_changes(); the git command can fail
call_has_uncommitted_changes ==
    /\ \E fault \in BOOLEAN :
        log' = <<IF fault
                 THEN Ev("status", "fault", raised_on_git_failure("status"))
                 ELSE Ev("status", "-",
                         IF has_uncommitted_changes(HeadTree, index, wt)
                         THEN "True" ELSE "False")>>
    /\ UNCHANGED <<gitvars, initial_commit, gitframe>>
    /\ UNCHANGED recorded

\* git_manager.commit_changes(message): git add ., then git commit; GitError
\* when git commit exits non-zero, the index staying as git add left it
call_commit_changes ==
    /\ Len(repo) < MaxCommits
    /\ \E message \in Messages, rejected \in BOOLEAN :
        IF commit_fails(HeadTree, git_add_all(index, wt), rejected)
        THEN /\ index' = git_add_all(index, wt)
             /\ UNCHANGED <<repo, head, wt>>
             /\ log' = <<Ev("commit", IF rejected THEN "rejected" ELSE "-", "GitError")>>
        ELSE /\ commit_changes(message)
             /\ log' = <<Ev("commit", "-", "None")>>
    /\ UNCHANGED <<initial_commit, gitframe>>
    /\ UNCHANGED recorded

\* git_manager.reset_to_commit(commit_hash): GitError when git reset --hard
\* exits non-zero, which it does for a hash that names no revision
call_reset_to_commit ==
    /\ \E commit_hash \in Hashes :
        IF resolves(commit_hash)
        THEN /\ reset_to_commit(commit_hash, index)
             /\ log' = <<Ev("reset", "revision", "None")>>
        ELSE /\ UNCHANGED gitvars
             /\ log' = <<Ev("reset", "unknown", "GitError")>>
    /\ UNCHANGED <<initial_commit, gitframe>>
    /\ recorded' = FALSE

GitManager ==
    \/ write_file
    \/ git_add_path
    \/ call_get_current_commit
    \/ call_has_uncommitted_changes
    \/ call_commit_changes
    \/ call_reset_to_commit

SpecGit == InitGit /\ [][GitManager]_vars


\* ------------------------------------------- TestRunner.run_full_test_suite
\* what a <testcase> element of the report holds for a test name
CaseKinds == {"none", "pass", "failure", "error", "skipped"}
Reports == [Tests -> CaseKinds]
ReportFiles == {"absent", "empty", "malformed", "junit"}

\* the child elements _parse_junit_xml looks for in a <testcase>
Markers == {"failure", "error", "skipped"}

\* the status _parse_junit_xml gives a <testcase> with these children
MutSkippedFirst(markers) ==
    IF "skipped" \in markers THEN "SKIPPED"
    ELSE IF "failure" \in markers \/ "error" \in markers THEN "FAILING"
    ELSE "PASSING"
testcase_status(markers) ==
    IF "failure" \in markers \/ "error" \in markers THEN "FAILING"
    ELSE IF "skipped" \in markers THEN "SKIPPED"
    ELSE "PASSING"

\* the key _parse_junit_xml gives a <testcase>; <<>> with named FALSE when the
\* element is skipped by continue
testcase_entry(classname, name, markers) ==
    IF classname # <<>> /\ name # <<>>
    THEN [named |-> TRUE, name |-> classname \o <<":", ":">> \o name,
          status |-> testcase_status(markers)]
    ELSE IF name # <<>>
    THEN [named |-> TRUE, name |-> name, status |-> testcase_status(markers)]
    ELSE NoEntry

\* the status _parse_junit_xml gives a test case of the report
case_status(kind) ==
    IF kind = "none" THEN NotRun
    ELSE testcase_status(IF kind = "pass" THEN {} ELSE {kind})

\* _parse_junit_xml: {} when the file is missing; ET.parse reads the whole file
\* before any test case is looked at and raises ParseError, caught, on an
\* empty or malformed one
MutParseBestEffort(file, cases) ==
    IF file \in {"absent", "empty"} THEN EmptyResults
    ELSE [n \in Tests |-> case_status(cases[n])]
parse_junit_xml(file, cases) ==
    IF file \in {"absent", "empty", "malformed"} THEN EmptyResults
    ELSE [n \in Tests |-> case_status(cases[n])]

runframe == <<gitvars, botvars, fixvars, start, attempts, edited, recorded, loopvars,
              pathvars>>

InitRunner ==
    /\ InitWorld /\ NoPath
    /\ prompt_template = FALSE
    /\ generator = "TestFixerGenerator"
    /\ spc = "off" /\ max_iterations = 0 /\ rpc = "call"

\* tempfile.NamedTemporaryFile(..., dir=tmp_dir, delete=False) creates the file
create_report_file ==
    /\ rpc = "call"
    /\ xml_file' = "empty"
    /\ rpc' = "pytest"
    /\ UNCHANGED <<junit, returned, log, runframe>>

\* subprocess.run(cmd, timeout=timeout): pytest writes, or not, its report and
\* exits, or is killed at the timeout with the file in whatever state it is
run_pytest ==
    /\ rpc = "pytest"
    /\ \E timeout \in BOOLEAN, file \in ReportFiles, cases \in Reports :
        /\ xml_file' = file /\ junit' = cases
        /\ rpc' = IF timeout THEN "TimeoutExpired" ELSE "parse"
        /\ log' = <<Ev("pytest", file, IF timeout THEN "timeout" ELSE "exit")>>
    /\ UNCHANGED <<returned, runframe>>

\* return self._parse_junit_xml(xml_file, verbose)
return_parsed ==
    /\ rpc = "parse"
    /\ returned' = [done |-> FALSE, value |-> parse_junit_xml(xml_file, junit)]
    /\ rpc' = "finally"
    /\ UNCHANGED <<xml_file, junit, log, runframe>>

\* except subprocess.TimeoutExpired: return {}
return_on_timeout ==
    /\ rpc = "TimeoutExpired"
    /\ returned' = [done |-> FALSE, value |-> EmptyResults]
    /\ rpc' = "finally"
    /\ UNCHANGED <<xml_file, junit, log, runframe>>

\* finally: Path(xml_file).unlink(missing_ok=True), and the return is made
finally_unlink ==
    /\ rpc = "finally"
    /\ xml_file' = "absent"
    /\ returned' = [returned EXCEPT !.done = TRUE]
    /\ rpc' = "returned"
    /\ UNCHANGED <<junit, log, runframe>>

run_full_test_suite ==
    \/ create_report_file
    \/ run_pytest
    \/ return_parsed
    \/ return_on_timeout
    \/ finally_unlink

SpecRunner == InitRunner /\ [][run_full_test_suite]_vars

\* ------------------------------- one test case from the report to the path
\* a test function f of module m, in package p or at the top, in class C or
\* not: pytest writes classname = the dotted module, then the class, and
\* name = the function
Origins == [package : {<<>>, <<"p">>}, class : {<<>>, <<"C">>}]
origin_file(o) ==
    (IF o.package = <<>> THEN <<>> ELSE o.package \o <<"/">>) \o <<"m", ".", "p", "y">>
origin_selector(o) ==
    (IF o.class = <<>> THEN <<>> ELSE o.class \o <<":", ":">>) \o <<"f">>
junit_classname(o) ==
    (IF o.package = <<>> THEN <<>> ELSE o.package \o <<".">>) \o <<"m">>
        \o (IF o.class = <<>> THEN <<>> ELSE <<".">> \o o.class)

\* the elements read: written by pytest, or with the classname or the name
\* attribute missing (testcase.get(..., ""))
TestCases ==
    {[classname |-> IF with_classname THEN junit_classname(o) ELSE <<>>,
      name |-> IF with_name THEN <<"f">> ELSE <<>>,
      markers |-> m, file |-> origin_file(o), selector |-> origin_selector(o)] :
        o \in Origins, with_classname \in BOOLEAN, with_name \in BOOLEAN,
        m \in SUBSET Markers}

InitCase ==
    /\ InitWorld
    /\ prompt_template = FALSE
    /\ generator = "TestFixerGenerator"
    /\ spc = "off" /\ max_iterations = 0 /\ rpc = "testcase"
    /\ junit_name = <<>> /\ test_path = <<>>
    /\ testcase \in TestCases /\ parsed = NoEntry /\ cli = NoCli
    /\ instances = NoInstances /\ comparator = NoComparator

\* the body of the for loop of _parse_junit_xml
parse_testcase ==
    /\ rpc = "testcase"
    /\ parsed' = testcase_entry(testcase.classname, testcase.name, testcase.markers)
    /\ rpc' = "parsed"
    /\ UNCHANGED <<gitvars, botvars, fixvars, histvars, loopvars,
                   xml_file, junit, returned, junit_name, test_path, testcase, cli,
                   instances, comparator>>

\* run_single_test(test_name) with a key of the results: the path given to pytest
single_test_path ==
    /\ rpc = "parsed" /\ parsed.named
    /\ junit_name' = parsed.name
    /\ test_path' = convert_test_name_to_pytest_path(parsed.name)
    /\ rpc' = "converted"
    /\ UNCHANGED <<gitvars, botvars, fixvars, histvars, loopvars,
                   xml_file, junit, returned, testcase, parsed, cli, instances,
                   comparator>>

SpecCase == InitCase /\ [][parse_testcase \/ single_test_path]_vars


\* ================================================================ claims
R0Tree == repo[start.head].tree
LastEvent == IF Len(log) = 0 THEN Ev("none", "-", "-") ELSE log[Len(log)]
Logged(kind, outcome) == \E i \in 1..Len(log) : log[i][1] = kind /\ log[i][3] = outcome
\* git reset --hard R0 has been done: HEAD and the index are at R0, and every
\* path of R0 has its content of R0
ResetToR0 ==
    /\ head = start.head /\ initial_commit = start.head
    /\ index = R0Tree
    /\ \A f \in Files : R0Tree[f] # "absent" => wt[f] = R0Tree[f]

\* C1: whenever fix_single_test creates a commit, the attempt's log is, in this
\* order, the assistant's success, changes detected, the target re-run PASSING
\* and one PASSING re-run of each test of previously_passing, and nothing else.
VerifiedBeforeCommit ==
    /\ Len(log) = 3 + Cardinality(previously_passing)
    /\ log[1] = Ev("assistant", "-", "ok")
    /\ log[2] = Ev("changes", "-", "yes")
    /\ log[3] = Ev("target", test_name, "PASSING")
    /\ {log[i] : i \in 4..Len(log)} = {Ev("rerun", n, "PASSING") : n \in previously_passing}
C1_CommitOnlyAfterVerification == [][Len(repo') > Len(repo) => VerifiedBeforeCommit]_vars
C1_Witness == result = "True" /\ Len(repo) > start.commits /\ Len(log) = 6

\* C2: when the attempt of a loop iteration has ended, every path the attempt
\* changed is part of a commit created in that attempt, or has been put back:
\* the assistant's changes are committed or rolled back.
C2_IterationCommitsOrRollsBack ==
    (spc = "completed") =>
        \A f \in Files : wt[f] # start.wt[f] =>
            (Len(repo) > start.commits /\ HeadTree[f] = wt[f])

\* C3 as stated: an attempt that starts on a clean tree and ends in a rollback
\* leaves the working tree as it was when the attempt started, new files gone.
C3_RollbackRestoresTree ==
    (pc = "idle" /\ LastEvent = EvReset /\ start.wt = R0Tree /\ start.index = R0Tree)
        => wt = start.wt

\* C3 as amended: after an attempt that ends in a rollback, HEAD and the index
\* are at R0 and every path of R0 has its content of R0; a path that R0 does not
\* have keeps what the assistant left in it, unless a failed commit had staged
\* it, and then it is removed.
C3_RollbackRestoresTrackedOnly ==
    (pc = "idle" /\ LastEvent = EvReset) =>
        /\ ResetToR0
        /\ \A f \in Files : R0Tree[f] = "absent" =>
              wt[f] = IF Logged("commit", "failed") THEN "absent" ELSE edited[f]
C3_Witness ==
    /\ pc = "idle" /\ LastEvent = EvReset /\ ~Logged("commit", "failed")
    /\ start.wt = R0Tree /\ edited["f"] # R0Tree["f"] /\ wt["f"] = R0Tree["f"]
    /\ R0Tree["g"] = "absent" /\ wt["g"] # "absent"

\* C4: when a test of previously_passing reports FAILING in the regression
\* check, the attempt ends with a reset to R0 and the result False, no commit
\* is created and previously_passing is what it was.
C4_RegressionGate ==
    (pc = "idle" /\ Logged("rerun", "FAILING")) =>
        /\ result = "False"
        /\ LastEvent = EvReset /\ ResetToR0
        /\ Len(repo) = start.commits
        /\ previously_passing = start.previously_passing
C4_Witness ==
    /\ pc = "idle" /\ Logged("rerun", "FAILING") /\ Logged("rerun", "PASSING")
    /\ Cardinality(start.previously_passing) = 2 /\ LastEvent = EvReset

\* C5: when the target's re-run is not PASSING, the attempt is exactly: assistant,
\* change detection, target re-run, reset to the recorded revision; no
\* regression check, no commit; the result is False.
IsStep(e) == e[1] # "timeout"
Steps == SelectSeq(log, IsStep)
C5_TargetNotFixedRollsBack ==
    (pc = "idle" /\ Logged("target", "FAILING")) =>
        /\ Steps = <<Ev("assistant", "-", "ok"), Ev("changes", "-", "yes"),
                     Ev("target", test_name, "FAILING"), EvReset>>
        /\ ResetToR0
        /\ Len(repo) = start.commits
        /\ result = "False"
C5_Witness ==
    /\ pc = "idle" /\ Logged("target", "FAILING") /\ LastEvent = EvReset
    /\ start.previously_passing # {} /\ result = "False"

\* C6: when the assistant fails, or succeeds and leaves no uncommitted change,
\* the attempt returns False having run no test, made no commit and done no
\* reset: HEAD, the index and the repository are untouched.
C6_EarlyAbortTouchesNothing ==
    (pc = "idle" /\ (Logged("assistant", "failed") \/ Logged("changes", "no"))) =>
        /\ result = "False"
        /\ \A i \in 1..Len(log) : log[i][1] \in {"assistant", "changes"}
        /\ head = start.head /\ index = start.index /\ Len(repo) = start.commits
        /\ Logged("changes", "no") => wt = HeadTree
C6_WitnessAssistantFailed ==
    pc = "idle" /\ Logged("assistant", "failed") /\ wt # start.wt /\ result = "False"
C6_Witness ==
    pc = "idle" /\ Logged("assistant", "ok") /\ Logged("changes", "no") /\ result = "False"

\* C7: when the commit fails after both verifications, the attempt ends with a
\* reset to R0 and the result False; the target stays FAILING in test_results
\* and is not added to previously_passing.
C7_CommitFailureRollsBack ==
    (pc = "idle" /\ Logged("commit", "failed")) =>
        /\ result = "False"
        /\ LastEvent = EvReset /\ ResetToR0
        /\ Len(repo) = start.commits
        /\ test_results[test_name] = "FAILING"
        /\ test_name \notin previously_passing
C7_Witness ==
    /\ pc = "idle" /\ Logged("commit", "failed") /\ Logged("target", "PASSING")
    /\ Logged("rerun", "PASSING") /\ result = "False"

\* C8: an attempt that returns True has created exactly one commit, now HEAD,
\* whose message starts with "fix: resolve failing test " and the target's
\* name; the target is PASSING in test_results, which is otherwise unchanged,
\* and previously_passing has gained the target and lost nothing.
C8_SuccessfulAttempt ==
    (pc = "idle" /\ result = "True") =>
        /\ Len(repo) = start.commits + 1 /\ head = Len(repo)
        /\ SubSeq(repo[head].message, 1, 2) = <<"fix: resolve failing test ", test_name>>
        /\ test_results = [start.test_results EXCEPT ![test_name] = "PASSING"]
        /\ previously_passing = start.previously_passing \cup {test_name}
\* the scenario {A: PASSING, B: FAILING} with target B
C8_Witness ==
    /\ pc = "idle" /\ result = "True" /\ test_name = "B"
    /\ start.test_results = [n \in Tests |-> IF n = "A" THEN "PASSING"
                                             ELSE IF n = "B" THEN "FAILING" ELSE NotRun]
    /\ test_results = [n \in Tests |-> IF n \in {"A", "B"} THEN "PASSING" ELSE NotRun]
    /\ previously_passing = {"A", "B"}

\* C9: an attempt that returns False leaves test_results and previously_passing
\* as they were, the target still FAILING, and HEAD at the revision recorded at
\* its start with no commit created.
C9_FailedAttemptChangesNothing ==
    (pc = "idle" /\ result = "False") =>
        /\ test_results = start.test_results
        /\ previously_passing = start.previously_passing
        /\ test_results[test_name] = "FAILING"
        /\ Len(repo) = start.commits
        /\ head = start.head
C9_Witness ==
    pc = "idle" /\ result = "False" /\ LastEvent = EvReset /\ start.head = 2 /\ wt # start.wt

\* C10: every name of previously_passing is a key of test_results with status
\* PASSING.
C10_PreviouslyPassingArePassing ==
    \A n \in previously_passing : test_results[n] = "PASSING"
C10_Witness ==
    /\ result = "True" /\ Cardinality(previously_passing) = 2
    /\ \E n \in Tests : test_results[n] = "SKIPPED"

Called(kind) == Len(log') = 1 /\ log'[1][1] = kind
Returned(outcome) == log'[1][3] = outcome
ResetDone == Called("reset") /\ Returned("None")
ResetToRecorded == ResetDone /\ head' = initial_commit
ResetAfterInterval == ResetToRecorded /\ recorded
Untracked(ix, w, f) == ix[f] = "absent" /\ w[f] # "absent"

\* C12 as stated: after reset_to_commit(R0), R0 being the revision recorded by
\* get_current_commit on a clean tree and only file writes and commits having
\* followed, the current revision is R0, every file
\* tracked at R0 has its content of R0, files the index tracked and R0 does not
\* are gone, and every file that was untracked before the reset is still
\* present and has_uncommitted_changes is true.
C12_ResetRestoresAndKeepsUntracked ==
    [][ResetAfterInterval =>
         /\ get_current_commit' = initial_commit
         /\ \A f \in Files :
              /\ repo[initial_commit].tree[f] # "absent"
                    => wt'[f] = repo[initial_commit].tree[f]
              /\ (repo[initial_commit].tree[f] = "absent" /\ index[f] # "absent")
                    => wt'[f] = "absent"
              /\ Untracked(index, wt, f)
                    => /\ wt'[f] # "absent"
                       /\ has_uncommitted_changes(repo'[head'].tree, index', wt')]_vars

\* C12 as amended: the same after any reset_to_commit(R0), the untracked files
\* that remain and are still reported being those at a path R0 does not
\* track; an untracked file at a
\* path of R0 is overwritten with the content of R0.
C12_ResetRestoresTracked ==
    [][ResetToRecorded =>
         /\ get_current_commit' = initial_commit
         /\ index' = repo[initial_commit].tree
         /\ \A f \in Files :
              /\ repo[initial_commit].tree[f] # "absent"
                    => wt'[f] = repo[initial_commit].tree[f]
              /\ (repo[initial_commit].tree[f] = "absent" /\ index[f] # "absent")
                    => wt'[f] = "absent"
              /\ (repo[initial_commit].tree[f] = "absent" /\ Untracked(index, wt, f))
                    => /\ wt'[f] = wt[f]
                       /\ has_uncommitted_changes(repo'[head'].tree, index', wt')]_vars
\* two commits were made after R0, then a reset to R0 with g untracked
C12_Witness ==
    /\ log = <<Ev("reset", "revision", "None")>> /\ head = initial_commit
    /\ Len(repo) = MaxCommits /\ head = 1
    /\ repo[Len(repo)].tree["f"] # HeadTree["f"] /\ wt["f"] = HeadTree["f"]
    /\ HeadTree["g"] = "absent" /\ wt["g"] # "absent"
    /\ has_uncommitted_changes(HeadTree, index, wt)

\* C13: commit_changes called on a tree without uncommitted changes raises
\* GitError, reset_to_commit called with a hash that names no revision raises
\* GitError, and in both cases get_current_commit returns what it returned
\* before the call and no revision is created.
C13_FailedMutationChangesNothing ==
    [][/\ (Called("commit") /\ ~has_uncommitted_changes(HeadTree, index, wt))
            => /\ Returned("GitError")
               /\ get_current_commit' = get_current_commit /\ repo' = repo
       /\ (Called("reset") /\ log'[1][2] = "unknown")
            => /\ Returned("GitError")
               /\ get_current_commit' = get_current_commit /\ repo' = repo
               /\ index' = index /\ wt' = wt]_vars
C13_Witness ==
    /\ log = <<Ev("commit", "-", "GitError")>>
    /\ ~has_uncommitted_changes(HeadTree, index, wt)
    /\ Len(repo) = 2 /\ head = 2
C13_WitnessReset ==
    /\ log = <<Ev("reset", "unknown", "GitError")>>
    /\ has_uncommitted_changes(HeadTree, index, wt) /\ head = 2

\* C14 as stated: commit_changes(message) called on a working tree that differs
\* from the last revision (modified, deleted or new files), git accepting the
\* commit, returns normally having created one revision: has_uncommitted_changes
\* is false, get_current_commit differs from what it was, and the subject of
\* the latest commit equals message.
CommitOnChangedTree == Called("commit") /\ wt # HeadTree /\ log'[1][2] # "rejected"
ModifiedTracked(f) == HeadTree[f] # "absent" /\ wt[f] # HeadTree[f]
StagedUncommitted(f) == index[f] # HeadTree[f]
NewUntracked(f) == HeadTree[f] = "absent" /\ index[f] = "absent" /\ wt[f] # "absent"
C15_StatusReportsDifferences ==
    (LastEvent[1] = "status" /\ LastEvent[2] # "fault") =>
        /\ (index = HeadTree /\ wt = HeadTree) => LastEvent[3] = "False"
        /\ LastEvent[3] = "True" <=>
              \E f \in Files : ModifiedTracked(f) \/ StagedUncommitted(f) \/ NewUntracked(f)
\* True for a new untracked file alone
C15_Witness ==
    /\ log = <<Ev("status", "-", "True")>>
    /\ \E f \in Files : NewUntracked(f)
    /\ \A f \in Files : ~ModifiedTracked(f) /\ ~StagedUncommitted(f)
C15_WitnessClean ==
    log = <<Ev("status", "-", "False")>> /\ head = 2 /\ wt = HeadTree /\ index = HeadTree

\* C16: when the initial discovery reports no FAILING test, run_continuous_fixing
\* returns at once: the loop is not entered, so no generator is asked, no
\* assistant runs, nothing is committed or reset, and nothing follows; this for
\* either generator.
NoneFailing(results) == \A n \in Tests : results[n] # "FAILING"
C16_NothingFailingStopsAtOnce ==
    /\ [][(spc = "start" /\ LastEvent' # EvInterrupt /\ NoneFailing(test_results'))
            => spc' = "returned"]_vars
    /\ [](spc = "returned" =>
            /\ NoneFailing(test_results)
            /\ iteration = 0 /\ fixes_made = 0 /\ request = NoTest /\ log = <<>>
            /\ Len(repo) = 1 /\ head = 1 /\ index = HeadTree /\ wt = HeadTree)
    /\ [][spc # "returned"]_vars
C16_Witness ==
    /\ spc = "returned" /\ generator = "FunctionBasedGenerator"
    /\ test_results = [n \in Tests |-> IF n = "A" THEN "PASSING"
                                       ELSE IF n = "B" THEN "SKIPPED" ELSE NotRun]

\* C17: when the initial discovery returns the empty mapping, the session does
\* not return as if every test passed.
C17_EmptyDiscoveryIsNotAllPassing ==
    [][(spc = "start" /\ test_results' = EmptyResults) => spc' # "returned"]_vars

\* C19: with a cap N >= 0, no work item is executed in an iteration whose
\* number exceeds N, so at most N work items are executed.
C19_CapBoundsWorkItems ==
    (~max_iterations.none /\ spc \in {"execute", "completed", "refresh"})
        => iteration <= max_iterations.n

\* C20: the wait-for-work step is entered from the top of an iteration when
\* should_continue is false; it runs discovery once and asks should_continue
\* again: if some work appeared the iteration goes on to generate, else it
\* starts over from the top; it asks for no prompt, runs no assistant, and
\* does not end the loop.
C20_WaitForWork ==
    /\ [][spc' = "rediscover" =>
            spc = "top" /\ FALSE \in generator_should_continue(test_results)]_vars
    /\ [][(spc = "rediscover" /\ LastEvent' # EvInterrupt) =>
            /\ spc' \in {"top", "generate"}
            /\ (spc' = "top") => FALSE \in generator_should_continue(test_results')
            /\ (spc' = "generate") => TRUE \in generator_should_continue(test_results')
            /\ generator = "TestFixerGenerator" =>
                  spc' = IF NoneFailing(test_results') THEN "top" ELSE "generate"
            /\ previously_passing' = {n \in Tests : test_results'[n] = "PASSING"}
            /\ request' = request /\ success' = success
            /\ iteration' = iteration /\ fixes_made' = fixes_made
            /\ UNCHANGED gitvars]_vars
\* waited twice, the second rediscovery finding nothing either
C20_Witness ==
    /\ spc = "top" /\ LastEvent = Ev("rediscover", "-", "-")
    /\ iteration = 2 /\ NoneFailing(test_results) /\ fixes_made = 1
C20_WitnessWorkAppeared ==
    /\ spc = "generate" /\ LastEvent = Ev("rediscover", "-", "-")
    /\ ~NoneFailing(test_results)

\* C18: when the test run timed out, or left no report, an empty or a malformed
\* one, run_full_test_suite returns the empty mapping; and whenever it has
\* returned, timeout included, the temporary report file is gone.
RunFailed == LastEvent[3] = "timeout" \/ LastEvent[2] \in {"absent", "empty", "malformed"}
C18_WitnessTimeout ==
    /\ returned.done /\ LastEvent = Ev("pytest", "junit", "timeout")
    /\ \E n \in Tests : junit[n] = "pass"
    /\ returned.value = EmptyResults /\ xml_file = "absent"

\* C21: in an iteration the assistant runs at most once, and on the first
\* request of the list that get_prompts yielded; the requests after the first
\* are never executed, in this iteration or in a later one.
Count(kind) == Cardinality({i \in 1..Len(log) : log[i][1] = kind})
C21_FirstPromptOnly ==
    /\ [](spc \in {"execute", "completed", "refresh"} =>
            /\ log[1][1] = "prompts" /\ request = log[1][2]
            /\ Count("assistant") = IF spc = "execute" THEN 0 ELSE 1)
    /\ [](request # "other")
    /\ [][spc = "execute" => spc' = "completed"]_vars
    /\ [][spc' = "execute" => spc = "generate"]_vars
\* two requests were yielded, the first was executed, the iteration is over
C21_Witness ==
    /\ spc = "refresh" /\ log[1] = Ev("prompts", "task", "more")
    /\ request = "task" /\ Count("assistant") = 1 /\ iteration = 2

\* C22: when on_prompt_completed raises, the session is not aborted: the state
\* is refreshed and the next iteration follows.
C22_CallbackFailureDoesNotAbort ==
    [][spc = "completed" => spc' = "refresh"]_vars

\* C23: a user interrupt at any point ends the session cleanly: it is never
\* left uncaught, and after an interrupt of the running assistant no further
\* step of the iteration is made before the final summary.
C23_InterruptEndsCleanly ==
    /\ [](spc # "KeyboardInterrupt")
    /\ [][(spc = "completed" /\ LastEvent[3] = "interrupted") => spc' = "summary"]_vars

\* C30: in dry-run mode the program makes exactly one full-suite discovery and
\* exits normally: no assistant is run, nothing is committed and nothing is
\* reset, and nothing follows the exit.
C30_DryRunDiscoversOnly ==
    /\ [](LastEvent = EvMain(TRUE) => spc = "dry_run")
    /\ [][spc = "dry_run" =>
            /\ spc' = "exit0" /\ UNCHANGED gitvars
            /\ previously_passing' = {n \in Tests : test_results'[n] = "PASSING"}]_vars
    /\ [](spc = "exit0" =>
            /\ log = <<EvMain(TRUE), Ev("discover", "-", "-")>>
            /\ Len(repo) = 1 /\ head = 1 /\ index = HeadTree /\ wt = HeadTree
            /\ iteration = 0 /\ fixes_made = 0 /\ request = NoTest)
    /\ [][spc # "exit0"]_vars
C30_Witness ==
    /\ spc = "exit0" /\ test_results["A"] = "FAILING" /\ test_results["B"] = "PASSING"

\* C29: for every test_results mapping, TestFixerGenerator.get_prompts yields
\* exactly one work item when some test is FAILING, for a test that is FAILING,
\* and nothing when no test is FAILING; should_continue is true iff some test
\* is FAILING, that is exactly when get_prompts yields an item. In the session
\* the request that is executed is for a FAILING test.
C29_TestFixerGenerator ==
    /\ \A prompts \in get_prompts(test_results) :
        /\ Len(prompts) = IF \E n \in Tests : test_results[n] = "FAILING" THEN 1 ELSE 0
        /\ \A i \in 1..Len(prompts) : test_results[prompts[i]] = "FAILING"
        /\ should_continue(test_results) <=> (prompts # <<>>)
    /\ get_prompts(test_results) # {}
    /\ should_continue(test_results) <=> (\E n \in Tests : test_results[n] = "FAILING")
    /\ (generator = "TestFixerGenerator" /\ spc = "execute")
            => test_results[request] = "FAILING"
C29_Witness ==
    /\ generator = "TestFixerGenerator" /\ spc = "execute" /\ request = "B"
    /\ test_results = [n \in Tests |-> IF n = "C" THEN "SKIPPED" ELSE "FAILING"]
C29_WitnessNothing ==
    /\ generator = "TestFixerGenerator" /\ spc = "top" /\ iteration = 1
    /\ get_prompts(test_results) = {<<>>} /\ test_results["A"] = "PASSING"

\* C25: a failing git invocation in get_current_commit or in
\* has_uncommitted_changes surfaces as GitError, the one error besides the
\* user interrupt that run_continuous_fixing lets through.
C25_GitFailureIsGitError ==
    LastEvent[2] = "fault" => LastEvent[3] = "GitError"

\* C27: run_single_test does not raise on a timeout: it returns a result with
\* the name given and the status FAILING; so a timeout of the target's run ends
\* the attempt with a rollback and the result False, and a timeout in the
\* regression check makes the test a regression, which ends the attempt the
\* same way; the attempt never ends in an error.
TimedOut(kind) == \E i \in 1..Len(log) : log[i][1] = "timeout" /\ log[i][3] = kind
RolledBack == pc = "idle" /\ result = "False" /\ LastEvent = EvReset /\ ResetToR0
C27_TimeoutIsFailing ==
    /\ \A n \in Tests : run_single_test(n, "timeout") = [name |-> n, status |-> "FAILING"]
    /\ \A i \in 1..Len(log) : log[i][1] = "timeout" =>
            /\ i < Len(log)
            /\ log[i + 1] = Ev(log[i][3], log[i][2], "FAILING")
    /\ TimedOut("target") => RolledBack /\ ~Logged("rerun", "PASSING")
    /\ TimedOut("rerun") =>
            /\ \A i \in 1..Len(log) : log[i][1] = "timeout" => log[i][2] \in failed_tests
            /\ pc = "regression" \/ RolledBack
    /\ (TimedOut("target") \/ TimedOut("rerun")) => result \in {"none", "False"}
C27_Witness ==
    /\ TimedOut("target") /\ RolledBack /\ wt # edited
C27_WitnessRegression ==
    /\ TimedOut("rerun") /\ RolledBack /\ Cardinality(failed_tests) = 1
    /\ Logged("rerun", "PASSING") /\ wt # edited

\* C24: a failure of the rollback's git reset is fatal: the process exits with
\* a non-zero status, and no further attempt is started.
C24_RollbackFailureIsFatal ==
    [][Logged("reset", "failed") => (spc' = "exit1" /\ pc' # "claude")]_vars

\* C26: in the fixed-test flow of __init__.py every attempt that ends without a
\* fix returns False to the session loop, which goes on; none ends the process.
C26_AttemptFailureIsRecoverable ==
    [][(spc = "legacy_fix" /\ pc # "idle" /\ pc' = "idle" /\ result' # "True")
            => (result' = "False" /\ spc' = "legacy_fix")]_vars

\* C28: convert_test_name_to_pytest_path returns a name without "::" unchanged;
\* else, M being what stands before the first "::" and R what stands after it,
\* it returns M with every "." replaced by "/" and ".py" appended when M has a
\* ".", "tests/" M ".py" when it has none, then "::" and R as it is; the two
\* examples of tests/test_path.py give the paths stated.
HasSeparator(s, i) == i < Len(s) /\ s[i] = ":" /\ s[i + 1] = ":"
FirstSeparator(s) ==
    IF \E i \in 1..Len(s) : HasSeparator(s, i)
    THEN CHOOSE i \in 1..Len(s) :
            HasSeparator(s, i) /\ \A j \in 1..(i - 1) : ~HasSeparator(s, j)
    ELSE 0
ExpectedPath(s) ==
    LET i == FirstSeparator(s)
        M == SubSeq(s, 1, i - 1)
        R == SubSeq(s, i + 2, Len(s))
    IN  IF i = 0 THEN s
        ELSE (IF \E k \in 1..Len(M) : M[k] = "."
              THEN [k \in 1..Len(M) |-> IF M[k] = "." THEN "/" ELSE M[k]]
              ELSE <<"t", "e", "s", "t", "s", "/">> \o M)
             \o <<".", "p", "y", ":", ":">> \o R
WithDotsName ==
    <<"t", "e", "s", "t", "s", ".", "t", "e", "s", "t", "_", "e",
      "x", "a", "m", "p", "l", "e", ":", ":", "t", "e", "s", "t",
      "_", "m", "e", "t", "h", "o", "d">>
WithDotsPath ==
    <<"t", "e", "s", "t", "s", "/", "t", "e", "s", "t", "_", "e",
      "x", "a", "m", "p", "l", "e", ".", "p", "y", ":", ":", "t",
      "e", "s", "t", "_", "m", "e", "t", "h", "o", "d">>
WithoutDotsName ==
    <<"t", "e", "s", "t", "_", "a", "r", "m", "6", "4", "_", "a",
      "l", "l", ":", ":", "t", "e", "s", "t", "_", "c", "o", "m",
      "p", "i", "l", "e", "s", "_", "t", "o", "_", "e", "x", "e",
      "c", "u", "t", "a", "b", "l", "e", "[", "_", "b", "f", "m",
      "a", "n", "d", "e", "l", "]">>
WithoutDotsPath ==
    <<"t", "e", "s", "t", "s", "/", "t", "e", "s", "t", "_", "a",
      "r", "m", "6", "4", "_", "a", "l", "l", ".", "p", "y", ":",
      ":", "t", "e", "s", "t", "_", "c", "o", "m", "p", "i", "l",
      "e", "s", "_", "t", "o", "_", "e", "x", "e", "c", "u", "t",
      "a", "b", "l", "e", "[", "_", "b", "f", "m", "a", "n", "d",
      "e", "l", "]">>
C28_PathMapping ==
    /\ rpc = "converted" => test_path = ExpectedPath(junit_name)
    /\ convert_test_name_to_pytest_path(WithDotsName) = WithDotsPath
    /\ convert_test_name_to_pytest_path(WithoutDotsName) = WithoutDotsPath
C28_Witness ==
    /\ rpc = "converted"
    /\ junit_name = <<"a", ".", "a", ":", ":", "a">>
    /\ test_path = <<"a", "/", "a", ".", "p", "y", ":", ":", "a">>
C28_WitnessNoDots ==
    /\ rpc = "converted"
    /\ junit_name = <<"a", ":", ":", ":", "a">>
    /\ test_path = <<"t", "e", "s", "t", "s", "/", "a", ".", "p", "y", ":", ":", ":", "a">>
C28_WitnessUnchanged ==
    rpc = "converted" /\ junit_name = <<"a", ".", "a", ":", "a">> /\ test_path = junit_name

\* C31: _parse_junit_xml gives a named test case one status: FAILING if it has
\* a failure or an error element, else SKIPPED if it has a skipped element,
\* else PASSING, so PASSING iff it has none of the three; a test case without
\* a name gets no entry; the key is classname::name, or name when classname is
\* empty.
C31_OneStatusPerTestCase ==
    rpc \in {"parsed", "converted"} =>
        /\ parsed.named <=> testcase.name # <<>>
        /\ ~parsed.named => parsed = NoEntry
        /\ parsed.named =>
            /\ parsed.status \in {"FAILING", "SKIPPED", "PASSING"}
            /\ parsed.status = "FAILING" <=>
                    (testcase.markers \cap {"failure", "error"} # {})
            /\ parsed.status = "SKIPPED" <=> (testcase.markers = {"skipped"})
            /\ parsed.status = "PASSING" <=> (testcase.markers = {})
            /\ parsed.name = IF testcase.classname = <<>> THEN testcase.name
                             ELSE testcase.classname \o <<":", ":">> \o testcase.name
C31_Witness ==
    /\ rpc = "parsed" /\ parsed.status = "FAILING"
    /\ testcase.markers = {"error", "skipped"}
    /\ parsed.name = <<"p", ".", "m", ":", ":", "f">>
C31_WitnessUnnamed ==
    rpc = "parsed" /\ ~parsed.named /\ testcase.classname # <<>>

\* C39: for every test case that pytest wrote in the report, the key built by
\* _parse_junit_xml is mapped by convert_test_name_to_pytest_path to the file
\* that defines the test, then "::", then the test's selector; a test of class
\* C in module p/m.py gives p/m.py::C::f.
WrittenByPytest == testcase.classname # <<>> /\ testcase.name # <<>>
C39_KeyMapsToDefiningFile ==
    (rpc = "converted" /\ WrittenByPytest) =>
        test_path = testcase.file \o <<":", ":">> \o testcase.selector

\* C32: cli.main constructs the bot with exactly prompt_generator_module,
\* verbose and debug taken from the command line (defaults None, False, False)
\* and calls run_continuous_loop once with the delay of --delay (default 60);
\* with the default class ClaudeBot the construction and the call succeed.
CliFinished == cli.at \notin {"off", "main", "constructed"}
C32_CliStartsSession ==
    CliFinished =>
        /\ cli.at = "returned" /\ cli.calls = 1
        /\ cli.kwargs = [prompt_generator_module |->
                             IF cli.argv.pg = "absent" THEN "None" ELSE cli.argv.module,
                         verbose |-> cli.argv.verbose, debug |-> cli.argv.debug]
        /\ cli.delay = IF cli.argv.delay = "absent" THEN 60
                       ELSE IF cli.argv.delay = "30" THEN 30 ELSE 5
C32_StubStartsSession ==
    cli.bot_class = "StubClaudeBot" => C32_CliStartsSession

\* C33: in an attempt that reaches the regression check, every test of
\* previously_passing is re-run once, whatever the earlier re-runs gave; the
\* check fails iff some re-run reports FAILING; and during the check
\* previously_passing and test_results stay what they were.
Reruns == {i \in 1..Len(log) : log[i][1] = "rerun"}
Rerun == {log[i][2] : i \in Reruns}
CommitTried == \E i \in 1..Len(log) : log[i][1] = "commit"
C33_RegressionCheckIsExhaustive ==
    Logged("target", "PASSING") =>
        /\ Rerun \subseteq start.previously_passing
        /\ Cardinality(Reruns) = Cardinality(Rerun)
        /\ pc = "regression" => Rerun = start.previously_passing \ unchecked
        /\ pc # "regression" =>
            /\ Rerun = start.previously_passing
            /\ (pc = "commit" \/ CommitTried) <=> ~Logged("rerun", "FAILING")
            /\ Logged("rerun", "FAILING") => (result = "False" /\ LastEvent = EvReset)
        /\ (pc \in {"regression", "commit"} \/ Logged("rerun", "FAILING")) =>
            /\ previously_passing = start.previously_passing
            /\ test_results = start.test_results
\* the first re-run fails and the second test is still re-run
C33_Witness ==
    /\ pc = "idle" /\ Cardinality(start.previously_passing) = 2
    /\ \E i \in Reruns, j \in Reruns :
        i < j /\ log[i][3] = "FAILING" /\ log[j][3] = "PASSING"
    /\ LastEvent = EvReset

\* C34: in the fixed-test flow of __init__.py, when no test of test_results is
\* FAILING at the top of an iteration, the loop ends there: no attempt is
\* started, nothing is discovered, and the final summary follows; the delay
\* was not slept before.
C34_LegacyStopsWhenNothingFails ==
    /\ [][(spc = "legacy_top" /\ NoneFailing(test_results)) =>
            /\ spc' = "summary" /\ pc' = "idle"
            /\ UNCHANGED <<gitvars, test_results, previously_passing, log>>]_vars
    /\ [][spc = "summary" => spc' = "done"]_vars
    /\ []((spc = "legacy_top" /\ NoneFailing(test_results))
            => LastEvent # Ev("sleep", "-", "-"))
C34_Witness ==
    /\ spc = "done" /\ NoneFailing(test_results) /\ max_iterations.none
    /\ fixes_made = 1 /\ iteration = 2 /\ Len(repo) = 2

\* C35: two processes in one working tree race: the reset of a process goes to
\* the revision it recorded at the start of its attempt, whatever was
\* committed since, and the commit of a process takes the whole working tree,
\* whoever wrote it; so a reset can discard the other's commit and a commit
\* can contain the other's unverified edit. A process starts an attempt only
\* when it has none in flight.
InstanceDid(i, kind) == log'[1][1] = kind /\ log'[1][2] = i /\ instances'[i] # instances[i]
C35_InstancesRace ==
    [][\A i \in Instances :
        /\ InstanceDid(i, "reset") =>
              /\ head' = instances[i].initial_commit
              /\ index' = repo[head'].tree /\ repo' = repo
        /\ InstanceDid(i, "commit") =>
              /\ Len(repo') = Len(repo) + 1 /\ head' = Len(repo')
              /\ repo'[head'].tree = wt /\ wt' = wt
        /\ instances'[i].attempts # instances[i].attempts =>
              /\ instances[i].pc = "idle" /\ instances'[i].pc = "claude"
              /\ instances'[i].attempts = instances[i].attempts + 1]_vars
\* the reset of process 1 has taken HEAD back before the commit of process 2
C35_Witness ==
    /\ log = <<Ev("reset", "1", "-")>>
    /\ Len(repo) = 2 /\ repo[2].message = commit_message("B") /\ head = 1
    /\ instances["1"].attempts = 1 /\ instances["2"].attempts = 1
\* the commit of process 1 holds the file process 2 wrote and has not verified
C35_WitnessForeignEdit ==
    /\ log = <<Ev("commit", "1", "created")>>
    /\ instances["2"].pc = "changes" /\ instances["2"].wrote = {"g"}
    /\ instances["1"].wrote = {"f"}
    /\ HeadTree["g"] = "v1" /\ repo[1].tree["g"] = "absent"

\* C36: every commit of fix_single_test holds only what the assistant changed
\* in that attempt: an attempt starts with nothing uncommitted in the working
\* tree, an attempt whose assistant changed nothing does not pass the change
\* detection, and a commit differs from its parent only in files the
\* assistant of the attempt changed.
C36_CommitsHoldOnlyOwnChanges ==
    /\ [](pc = "claude" => ~has_uncommitted_changes(HeadTree, index, wt))
    /\ [][/\ (pc = "changes" /\ pc' = "target") => edited # start.wt
          /\ Len(repo') > Len(repo) =>
                \A f \in Files : repo'[head'].tree[f] # HeadTree[f]
                                    => edited[f] # start.wt[f]]_vars

\* C38: a full-suite discovery that fails returns the empty mapping; it does
\* not shrink the regression baseline: previously_passing still contains every
\* test it contained before the call.
C38_FailedDiscoveryKeepsBaseline ==
    [][test_results' = EmptyResults => previously_passing \subseteq previously_passing']_vars

\* C40: the statistics of the final summary are exact: when the loop stopped
\* because the cap N was reached the iteration count printed is N, and the
\* count of fixed tests is the number of attempts whose change was verified
\* and committed during the session, that is the number of revisions created.
StoppedAtCap == cap_exceeded(max_iterations, iteration)
C40_SummaryStatisticsExact ==
    spc = "done" =>
        /\ StoppedAtCap => iteration = max_iterations.n
        /\ fixes_made = Len(repo) - 1

\* C37: with ImplementationComparatorGenerator every comparable module is sent
\* to the assistant exactly once before should_continue becomes false: between
\* iterations every module of _processed_modules has been executed by the
\* loop, and once no module is unprocessed each module was executed once.
TimesExecuted(m) == Cardinality({k \in 1..Len(comparator.executed) : comparator.executed[k] = m})
C37_EveryModuleSentOnce ==
    /\ comparator.at = "top" =>
          comparator._processed_modules \subseteq Range(comparator.executed)
    /\ (/\ comparator.at \in {"top", "rediscover"}
        /\ ~comparator_should_continue(comparator.modules, comparator._processed_modules))
          => \A m \in comparator.modules : TimesExecuted(m) = 1

====
